---- MODULE Spec2Model ----
(***************************************************************************)
(* Model of the Tawhiri HTTP API (src/tawhiri/api.py): one inbound request *)
(* travelling through main() or main_datasetcheck().                       *)
(*                                                                         *)
(* Values.  Every raw query value and every Python value is a record       *)
(* [t, s, v]: t is the kind, s the text (for strings), v the number.       *)
(* Rates are counted in tenths of a metre per second (0.2 m/s = 2),        *)
(* altitudes in metres, instants in whole seconds.                         *)
(***************************************************************************)
EXTENDS Integers, Sequences, FiniteSets, TLC

VARIABLES endpoint, data, pc, req, exc, calls, elev, ds, tawhiri_ds,
          result, prediction, launch_estimate, http

vars == <<endpoint, data, pc, req, exc, calls, elev, ds, tawhiri_ds,
          result, prediction, launch_estimate, http>>

\* ------------------------------------------------------------------ bounds
\* largest rate (tenths of m/s) offered as an input
MaxRate == 3
\* largest number of stages the solver may return
MaxStages == 3
\* largest number of points in one stage returned by the solver
MaxLen == 2

\* --------------------------------------------------------- program constants
API_VERSION == 1
LATEST_DATASET_KEYWORD == "latest"
PROFILE_STANDARD == "standard_profile"
PROFILE_FLOAT == "float_profile"
PROFILE_REVERSE == "reverse_profile"
STANDARD_FORMAT == "json"
\* rate_clip's default minimum_rate, 0.2, in tenths
MinimumRate == 2

\* ------------------------------------------------------------------- values
\* raw query values (what request.args holds)
Absent == [t |-> "absent", s |-> "", v |-> 0]
Text(str) == [t |-> "text", s |-> str, v |-> 0]
NumStr(n) == [t |-> "numstr", s |-> "", v |-> n]
NanStr == [t |-> "numstr", s |-> "nan", v |-> 0]
RfcStr(n) == [t |-> "rfcstr", s |-> "", v |-> n]

\* Python values
Unset == [t |-> "unset", s |-> "", v |-> 0]
None == [t |-> "None", s |-> "", v |-> 0]
Int_(n) == [t |-> "int", s |-> "", v |-> n]
Float(n) == [t |-> "float", s |-> "", v |-> n]
NaN == [t |-> "float", s |-> "nan", v |-> 0]
Str(str) == [t |-> "str", s |-> str, v |-> 0]
\* an RFC3339 string produced by _timestamp_to_rfc3339 for instant n
Rfc3339(n) == [t |-> "rfc3339", s |-> "", v |-> n]

IsNumber(x) == x.t \in {"float", "int"}
IsNaN(x) == x.t = "float" /\ x.s = "nan"

\* ---------------------------------------------------------------- exceptions
NoExc == [type |-> "none", desc |-> "", param |-> ""]
Raise(type, desc, param) == [type |-> type, desc |-> desc, param |-> param]

APIExceptions == {"RequestException", "InvalidDatasetException",
                  "PredictionException", "InternalException",
                  "NotYetImplementedException"}

status_code(type) ==
    CASE type = "RequestException" -> 400
      [] type = "InvalidDatasetException" -> 404
      [] type = "PredictionException" -> 500
      [] type = "InternalException" -> 500
      [] type = "NotYetImplementedException" -> 501
      [] OTHER -> 500

\* ------------------------------------------------------------------- casts
\* float(raw): a numeric literal parses, "nan" parses to NaN, the rest raises
CastFloat(raw) ==
    IF raw.t = "numstr"
    THEN [ok |-> TRUE, val |-> IF raw.s = "nan" THEN NaN ELSE Float(raw.v)]
    ELSE [ok |-> FALSE, val |-> None]

\* strict_rfc3339.rfc3339_to_timestamp(raw)
rfc3339_to_timestamp(raw) ==
    IF raw.t = "rfcstr"
    THEN [ok |-> TRUE, val |-> Float(raw.v)]
    ELSE [ok |-> FALSE, val |-> None]

\* str(raw) never raises
CastStr(raw) == [ok |-> TRUE, val |-> [t |-> "str", s |-> raw.s, v |-> raw.v]]

\* strict_rfc3339.timestamp_to_rfc3339_utcoffset(ts)
timestamp_to_rfc3339(ts) == Rfc3339(ts.v)

\* Python's x < y, x <= y on floats: a NaN operand makes every comparison False
Less(x, y) == ~IsNaN(x) /\ ~IsNaN(y) /\ x.v < y.v
LessEq(x, y) == ~IsNaN(x) /\ ~IsNaN(y) /\ x.v <= y.v

\* ------------------------------------------------------------ rate_clip
\* rate_clip without the lower bound
rate_clip_Unclipped(rate) == rate

rate_clip(rate) ==
    IF Less(rate, Float(MinimumRate)) THEN Float(MinimumRate) ELSE rate

\* ------------------------------------------------------- _extract_parameter
\* The cast argument, by name
Cast(cast, raw) ==
    CASE cast = "float" -> CastFloat(raw)
      [] cast = "rfc3339" -> rfc3339_to_timestamp(raw)
      [] OTHER -> CastStr(raw)

\* The validator argument: validator=None, or one of the lambdas of
\* parse_request with the value it closes over
NoValidator == [kind |-> "none", bound |-> None]
LatitudeValidator == [kind |-> "latitude", bound |-> None]
LongitudeValidator == [kind |-> "longitude", bound |-> None]
PositiveValidator == [kind |-> "positive", bound |-> None]
GreaterThanValidator(bound) == [kind |-> "greater", bound |-> bound]

\* validator(result): "ok", "reject", or the exception the lambda raises;
\* ordering a float against None or a str raises TypeError
Validate(validator, x) ==
    CASE validator.kind = "none" -> "ok"
      [] validator.kind = "latitude" ->
            IF LessEq(Float(-90), x) /\ LessEq(x, Float(90))
            THEN "ok" ELSE "reject"
      [] validator.kind = "longitude" ->
            IF LessEq(Float(0), x) /\ Less(x, Float(360))
            THEN "ok" ELSE "reject"
      [] validator.kind = "positive" ->
            IF Less(Float(0), x) THEN "ok" ELSE "reject"
      [] OTHER ->
            IF ~IsNumber(validator.bound) THEN "TypeError"
            ELSE IF Less(validator.bound, x) THEN "ok" ELSE "reject"

extract_parameter(d, parameter, cast, default, ignore, validator) ==
    IF d[parameter] = Absent
    THEN IF default = None /\ ~ignore
         THEN [val |-> None,
               exc |-> Raise("RequestException", "not provided", parameter)]
         ELSE [val |-> default, exc |-> NoExc]
    ELSE LET c == Cast(cast, d[parameter]) IN
         IF ~c.ok
         THEN [val |-> None,
               exc |-> Raise("RequestException", "unable to parse", parameter)]
         ELSE LET verdict == Validate(validator, c.val) IN
              IF verdict = "ok" THEN [val |-> c.val, exc |-> NoExc]
              ELSE IF verdict = "reject"
              THEN [val |-> None,
                    exc |-> Raise("RequestException", "invalid value",
                                  parameter)]
              ELSE [val |-> None, exc |-> Raise(verdict, "", parameter)]

\* ------------------------------------------------------------ parse_request
Params == {"launch_latitude", "launch_longitude", "launch_datetime",
           "launch_altitude", "format", "profile", "ascent_rate",
           "burst_altitude", "descent_rate", "float_altitude",
           "stop_datetime", "dataset"}

ReqKeys == Params \cup {"version"}

\* req = {"version": API_VERSION}
NewReq == [k \in ReqKeys |-> IF k = "version" THEN Int_(API_VERSION) ELSE Unset]

\* One assignment req[key] = _extract_parameter(...), skipped once an
\* exception is in flight.
Assign(st, key, e) ==
    IF st.exc # NoExc THEN st
    ELSE IF e.exc # NoExc THEN [req |-> st.req, exc |-> e.exc]
    ELSE [req |-> [st.req EXCEPT ![key] = e.val], exc |-> NoExc]

\* a rate field: rate_clip(_extract_parameter(..., validator = x > 0))
ClippedRate(d, key) ==
    LET e == extract_parameter(d, key, "float", None, FALSE, PositiveValidator)
    IN  IF e.exc # NoExc THEN e ELSE [val |-> rate_clip(e.val), exc |-> NoExc]

\* parse_request, lines 133-148: the generic fields
ParseGenericFields(d) ==
    LET s0 == [req |-> NewReq, exc |-> NoExc]
        s1 == Assign(s0, "launch_latitude",
                     extract_parameter(d, "launch_latitude", "float", None,
                                       FALSE, LatitudeValidator))
        s2 == Assign(s1, "launch_longitude",
                     extract_parameter(d, "launch_longitude", "float", None,
                                       FALSE, LongitudeValidator))
        s3 == Assign(s2, "launch_datetime",
                     extract_parameter(d, "launch_datetime",
                                       "rfc3339", None, FALSE,
                                       NoValidator))
        s4 == Assign(s3, "launch_altitude",
                     extract_parameter(d, "launch_altitude", "float", None,
                                       TRUE, NoValidator))
    IN  Assign(s4, "format",
               extract_parameter(d, "format", "str", Str(STANDARD_FORMAT),
                                 FALSE, NoValidator))

\* the launch altitude were the except branch to leave req untouched
ResolvedAltitude_NoDefault(r, e) ==
    IF r["launch_altitude"] # None THEN r["launch_altitude"] ELSE e.val

\* parse_request, lines 150-172: the launch altitude after the lookup whose
\* outcome is e (only consulted when no altitude was extracted)
ResolvedAltitude(r, e) ==
    IF r["launch_altitude"] # None THEN r["launch_altitude"]
    ELSE IF e.o = "ok" THEN e.val
    ELSE Float(0)

\* parse_request, lines 200-201: the profile matched no known profile
UnknownProfile_Accepted(st) == st

UnknownProfile(st) ==
    [req |-> st.req,
     exc |-> Raise("RequestException", "unknown profile", "profile")]

\* parse_request, lines 174-207: profile, its fields, then the dataset
ParseProfileFields(d, r) ==
    LET launch_alt == r["launch_altitude"]
        BurstValidator == GreaterThanValidator(launch_alt)
        StopValidator == GreaterThanValidator(r["launch_datetime"])
        s0 == Assign([req |-> r, exc |-> NoExc], "profile",
                     extract_parameter(d, "profile", "str",
                                       Str(PROFILE_STANDARD), FALSE,
                                       NoValidator))
        profile == s0.req["profile"].s
        s1 == IF profile = PROFILE_STANDARD
              THEN Assign(Assign(Assign(s0, "ascent_rate",
                                        ClippedRate(d, "ascent_rate")),
                                 "burst_altitude",
                                 extract_parameter(d, "burst_altitude",
                                                   "float", None, FALSE,
                                                   BurstValidator)),
                          "descent_rate", ClippedRate(d, "descent_rate"))
              ELSE IF profile = PROFILE_FLOAT
              THEN Assign(Assign(Assign(s0, "ascent_rate",
                                        ClippedRate(d, "ascent_rate")),
                                 "float_altitude",
                                 extract_parameter(d, "float_altitude",
                                                   "float", None, FALSE,
                                                   BurstValidator)),
                          "stop_datetime",
                          extract_parameter(d, "stop_datetime",
                                            "rfc3339", None, FALSE,
                                            StopValidator))
              ELSE IF profile = PROFILE_REVERSE
              THEN Assign(s0, "ascent_rate", ClippedRate(d, "ascent_rate"))
              ELSE UnknownProfile(s0)
    IN  Assign(s1, "dataset",
               extract_parameter(d, "dataset", "rfc3339",
                                 Str(LATEST_DATASET_KEYWORD), FALSE,
                                 NoValidator))

\* ---------------------------------------------------------------- inputs
RateInputs == {Absent, Text("fast"), NanStr} \cup {NumStr(n) : n \in -1..MaxRate}
DescentInputs == {Absent} \cup {NumStr(n) : n \in 0..MaxRate}
AltitudeInputs == {Absent, NumStr(100)}
StopInputs == {Absent, RfcStr(1), RfcStr(2)}

\* The query strings offered.  Fields the chosen profile never reads are
\* left out of the query.
Requests ==
    {[launch_latitude |-> lat, launch_longitude |-> lon,
      launch_datetime |-> dt, launch_altitude |-> alt, format |-> fmt,
      profile |-> prof.p, ascent_rate |-> prof.a, burst_altitude |-> prof.b,
      descent_rate |-> prof.d, float_altitude |-> prof.f,
      stop_datetime |-> prof.s, dataset |-> dset] :
        lat \in {Absent, NumStr(51)},
        lon \in {NumStr(1), NumStr(360)},
        dt \in {RfcStr(1)},
        alt \in {Absent, NumStr(0), NumStr(100)},
        fmt \in {Absent, Text("csv"), Text("kml"), Text("xml")},
        dset \in {Absent, Text(LATEST_DATASET_KEYWORD), RfcStr(0)},
        prof \in
          {[p |-> p, a |-> a, b |-> b, d |-> d, f |-> Absent, s |-> Absent] :
              p \in {Absent, Text(PROFILE_STANDARD)}, a \in RateInputs,
              b \in AltitudeInputs, d \in DescentInputs}
          \cup
          {[p |-> Text(PROFILE_FLOAT), a |-> a, b |-> Absent, d |-> Absent,
            f |-> f, s |-> s] :
              a \in RateInputs, f \in AltitudeInputs, s \in StopInputs}
          \cup
          {[p |-> Text(PROFILE_REVERSE), a |-> a, b |-> Absent, d |-> Absent,
            f |-> Absent, s |-> Absent] : a \in RateInputs}
          \cup
          {[p |-> Text("bogus"), a |-> Absent, b |-> Absent, d |-> Absent,
            f |-> Absent, s |-> Absent]}}

EmptyQuery == [k \in Params |-> Absent]

\* Outcomes of the elevation lookup: the GET raises, answers with another
\* status, answers 200 with a body that is not JSON, answers 200 with JSON
\* lacking results[0].elevation, or answers 200 with an elevation that is a
\* number, null or a string.
ElevationFailures == {"network error", "non-200", "malformed body",
                      "missing result"}

ElevationOutcomes ==
    {[o |-> f, val |-> None] : f \in ElevationFailures}
    \cup {[o |-> "ok", val |-> v] : v \in {Float(100), None, Str("n/a")}}

NotCalled == [o |-> "not called", val |-> None]

\* Outcomes of WindDataset.open_latest / WindDataset(...)
DatasetFailures == {"IOError", "ValueError", "RuntimeError"}

\* ds_time of a resolved dataset, in seconds: 06:00:00 and 12:30:15
DsTimes == {21600, 45015}

\* A trajectory point (dt, lat, lon, alt) and the solver's possible results
Point(i) == <<i, 10 + i, 20 + i, 30 + i>>
Legs == {[j \in 1..n |-> Point(j)] : n \in 0..MaxLen}
Results == UNION {[1..k -> Legs] : k \in 0..MaxStages}

NoResponse == [status |-> 0, body |-> "none", type |-> "", description |-> ""]

\* ------------------------------------------------------------------- Init
Init ==
    /\ endpoint \in {"predict", "datasetcheck"}
    /\ data \in (IF endpoint = "predict" THEN Requests ELSE {EmptyQuery})
    /\ pc = "main"
    /\ req = NewReq
    /\ exc = NoExc
    /\ calls = {}
    /\ elev = NotCalled
    /\ ds = "unresolved"
    /\ tawhiri_ds = 0
    /\ result = <<>>
    /\ prediction = <<>>
    /\ launch_estimate = <<>>
    /\ http = NoResponse

\* ------------------------------------------------------------- parse_request
\* lines 133-148
ParseGeneric ==
    /\ pc = "main" /\ endpoint = "predict"
    /\ LET st == ParseGenericFields(data) IN
       /\ req' = st.req
       /\ exc' = st.exc
       /\ pc' = IF st.exc = NoExc THEN "altitude" ELSE "raised"
    /\ UNCHANGED <<endpoint, data, calls, elev, ds, tawhiri_ds, result,
                   prediction, launch_estimate, http>>

\* lines 150-172
ResolveAltitude ==
    /\ pc = "altitude"
    /\ IF req["launch_altitude"] = None
       THEN \E e \in ElevationOutcomes :
               /\ elev' = e
               /\ calls' = calls \cup {"elevation"}
               /\ req' = [req EXCEPT !["launch_altitude"] =
                                         ResolvedAltitude(req, e)]
       ELSE UNCHANGED <<elev, calls, req>>
    /\ pc' = "profile"
    /\ UNCHANGED <<endpoint, data, exc, ds, tawhiri_ds, result, prediction,
                   launch_estimate, http>>

\* lines 174-207
ParseProfile ==
    /\ pc = "profile"
    /\ LET st == ParseProfileFields(data, req) IN
       /\ req' = st.req
       /\ exc' = st.exc
       /\ pc' = IF st.exc = NoExc THEN "run_prediction" ELSE "raised"
    /\ UNCHANGED <<endpoint, data, calls, elev, ds, tawhiri_ds, result,
                   prediction, launch_estimate, http>>

\* ------------------------------------------------------------ run_prediction
\* the format "%Y-%m-%dT%H:%M:%SZ", which keeps minutes and seconds
strftime_hour_Full(t) == Rfc3339(t)

\* tawhiri_ds.ds_time.strftime("%Y-%m-%dT%H:00:00Z")
strftime_hour(t) == Rfc3339(t - (t % 3600))

\* lines 284-297: resolve the dataset and write its time into the request.
\* resp["request"] is the dict req itself, so the write lands in req.
ResolveDataset ==
    /\ pc = "run_prediction"
    /\ calls' = calls \cup {"dataset"}
    /\ \/ \E t \in DsTimes :
             /\ ds' = "ok"
             /\ tawhiri_ds' = t
             /\ req' = [req EXCEPT !["dataset"] = strftime_hour(t)]
             /\ pc' = "solve"
             /\ UNCHANGED exc
       \/ \E f \in DatasetFailures :
             /\ ds' = f
             /\ exc' = IF f = "IOError"
                       THEN Raise("InvalidDatasetException",
                                  "No matching dataset found.", "")
                       ELSE IF f = "ValueError"
                       THEN Raise("InvalidDatasetException", "e.args", "")
                       ELSE Raise(f, "", "")
             /\ pc' = "raised"
             /\ UNCHANGED <<tawhiri_ds, req>>
    /\ UNCHANGED <<endpoint, data, elev, result, prediction, launch_estimate,
                   http>>

KnownProfiles == {PROFILE_STANDARD, PROFILE_FLOAT, PROFILE_REVERSE}

\* lines 299-335: build the stages and run the solver
Solve ==
    /\ pc = "solve"
    /\ IF req["profile"].s \notin KnownProfiles
       THEN /\ exc' = Raise("InternalException",
                            "No implementation for known profile.", "")
            /\ pc' = "raised"
            /\ UNCHANGED <<calls, result>>
       ELSE /\ calls' = calls \cup {"solver"}
            /\ \/ \E r \in Results :
                     /\ result' = r
                     /\ pc' = "assemble"
                     /\ UNCHANGED exc
               \/ /\ exc' = Raise("PredictionException",
                                  "Prediction did not complete", "")
                  /\ pc' = "raised"
                  /\ UNCHANGED result
    /\ UNCHANGED <<endpoint, data, req, elev, ds, tawhiri_ds, prediction,
                   launch_estimate, http>>

\* lines 366-383, after the assertion: label and convert every leg
parse_stages(labels, legs) ==
    [i \in 1..Len(legs) |->
        [stage |-> labels[i],
         trajectory |->
            [j \in 1..Len(legs[i]) |->
                [latitude |-> legs[i][j][2],
                 longitude |-> legs[i][j][3],
                 altitude |-> legs[i][j][4],
                 datetime |-> timestamp_to_rfc3339(Float(legs[i][j][1]))]]]]

Labels(profile) ==
    IF profile = PROFILE_FLOAT THEN <<"ascent", "float">>
    ELSE <<"ascent", "descent">>

\* the launch site taken from trajectory[0] of the last stage
LaunchEstimate_First(pred, r) ==
    LET launch_site == pred[Len(pred)].trajectory[1]
    IN  [latitude |-> launch_site.latitude,
         longitude |-> launch_site.longitude,
         altitude |-> launch_site.altitude,
         datetime |-> timestamp_to_rfc3339(r["launch_datetime"])]

\* lines 344-351
LaunchEstimate(pred, r) ==
    LET traj == pred[Len(pred)].trajectory
        launch_site == traj[Len(traj)]
    IN  [latitude |-> launch_site.latitude,
         longitude |-> launch_site.longitude,
         altitude |-> launch_site.altitude,
         datetime |-> timestamp_to_rfc3339(r["launch_datetime"])]

\* keys of the request with "datetime" in their name
DatetimeKeys == {"launch_datetime", "stop_datetime"}

\* the conversion applied to every float of the request
ConvertDatetimes_AllFloats(r) ==
    [k \in ReqKeys |->
        IF r[k].t = "float" THEN timestamp_to_rfc3339(r[k]) ELSE r[k]]

\* lines 356-359
ConvertDatetimes(r) ==
    [k \in ReqKeys |->
        IF k \in DatetimeKeys /\ r[k] # Unset
        THEN timestamp_to_rfc3339(r[k]) ELSE r[k]]

\* lines 337-363: format the trajectory and finish the response
AssembleResponse ==
    /\ pc = "assemble"
    /\ LET profile == req["profile"].s
           labels == Labels(profile)
           pred == parse_stages(labels, result)
       IN
       IF profile \notin KnownProfiles
       THEN /\ exc' = Raise("InternalException",
                            "No implementation for known profile.", "")
            /\ pc' = "raised"
            /\ UNCHANGED <<prediction, launch_estimate, req>>
       ELSE IF Len(labels) # Len(result)
       THEN /\ exc' = Raise("AssertionError", "", "")
            /\ pc' = "raised"
            /\ UNCHANGED <<prediction, launch_estimate, req>>
       ELSE IF profile = PROFILE_REVERSE /\ Len(result[Len(result)]) = 0
       THEN /\ exc' = Raise("IndexError", "", "")
            /\ pc' = "raised"
            /\ prediction' = pred
            /\ UNCHANGED <<launch_estimate, req>>
       ELSE /\ prediction' = pred
            /\ launch_estimate' = IF profile = PROFILE_REVERSE
                                  THEN <<LaunchEstimate(pred, req)>>
                                  ELSE <<>>
            /\ req' = ConvertDatetimes(req)
            /\ pc' = "respond"
            /\ UNCHANGED exc
    /\ UNCHANGED <<endpoint, data, calls, elev, ds, tawhiri_ds, result, http>>

\* ----------------------------------------------------------------- main
\* lines 395-418: dispatch on the requested format
FormatDispatch ==
    /\ pc = "respond" /\ endpoint = "predict"
    /\ IF req["format"].s \in {"csv", "kml", "json"}
       THEN /\ http' = [status |-> 200, body |-> req["format"].s,
                        type |-> "", description |-> ""]
            /\ pc' = "done"
            /\ UNCHANGED exc
       ELSE /\ exc' = Raise("InternalException", "Format not supported", "")
            /\ pc' = "raised"
            /\ UNCHANGED http
    /\ UNCHANGED <<endpoint, data, req, calls, elev, ds, tawhiri_ds, result,
                   prediction, launch_estimate>>

\* ------------------------------------------------- parse_request_datasetcheck
\* lines 213-240
DatasetCheck ==
    /\ pc = "main" /\ endpoint = "datasetcheck"
    /\ calls' = calls \cup {"dataset"}
    /\ \/ \E t \in DsTimes :
             /\ ds' = "ok"
             /\ tawhiri_ds' = t
             /\ req' = [NewReq EXCEPT !["dataset"] = strftime_hour(t)]
             /\ pc' = "respond"
             /\ UNCHANGED exc
       \/ \E f \in DatasetFailures :
             /\ ds' = f
             /\ exc' = IF f = "IOError"
                       THEN Raise("InvalidDatasetException",
                                  "No matching dataset found.", "")
                       ELSE Raise("InvalidDatasetException",
                                  "Could not find any dataset.", "")
             /\ pc' = "raised"
             /\ UNCHANGED <<tawhiri_ds, req>>
    /\ UNCHANGED <<endpoint, data, elev, result, prediction, launch_estimate,
                   http>>

\* main_datasetcheck, lines 429-431
DatasetCheckRespond ==
    /\ pc = "respond" /\ endpoint = "datasetcheck"
    /\ http' = [status |-> 200, body |-> "json", type |-> "",
                description |-> ""]
    /\ pc' = "done"
    /\ UNCHANGED <<endpoint, data, req, exc, calls, elev, ds, tawhiri_ds,
                   result, prediction, launch_estimate>>

\* ------------------------------------------------------------ error handling
\* handle_exception, lines 434-447: registered for APIException only
HandleException ==
    /\ pc = "raised" /\ exc.type \in APIExceptions
    /\ http' = [status |-> status_code(exc.type), body |-> "error",
                type |-> exc.type, description |-> exc.desc]
    /\ pc' = "done"
    /\ UNCHANGED <<endpoint, data, req, exc, calls, elev, ds, tawhiri_ds,
                   result, prediction, launch_estimate>>

\* any other exception leaves the view uncaught: the framework answers with
\* its own 500 page, which handle_exception never sees
UnhandledException ==
    /\ pc = "raised" /\ exc.type \notin APIExceptions
    /\ http' = [status |-> 500, body |-> "server error", type |-> "",
                description |-> ""]
    /\ pc' = "done"
    /\ UNCHANGED <<endpoint, data, req, exc, calls, elev, ds, tawhiri_ds,
                   result, prediction, launch_estimate>>

Next ==
    \/ ParseGeneric
    \/ ResolveAltitude
    \/ ParseProfile
    \/ ResolveDataset
    \/ Solve
    \/ AssembleResponse
    \/ FormatDispatch
    \/ DatasetCheck
    \/ DatasetCheckRespond
    \/ HandleException
    \/ UnhandledException

Spec == Init /\ [][Next]_vars

\* ================================================================== claims
GenericParams == {"launch_latitude", "launch_longitude", "launch_datetime",
                  "launch_altitude", "format"}

\* the request names a profile that is none of the three known ones
UnknownProfileRequested ==
    /\ endpoint = "predict"
    /\ data["profile"] # Absent
    /\ data["profile"].s \notin KnownProfiles

UnknownProfileResponse ==
    [status |-> 400, body |-> "error", type |-> "RequestException",
     description |-> "unknown profile"]

\* run_prediction has returned, or the endpoint has answered 200
Succeeded == pc = "respond" \/ (pc = "done" /\ http.status = 200)

\* C1 (as claimed): every request with an unknown profile value ends in the
\* unknown-profile request error with status 400, and neither the dataset
\* store nor the solver is invoked for it.
C1_Original ==
    UnknownProfileRequested =>
        /\ calls \cap {"dataset", "solver"} = {}
        /\ pc = "done" => http = UnknownProfileResponse

\* C1 (amended): every request with an unknown profile value ends in a
\* request error with status 400 and never invokes the dataset store or the
\* solver; the error is the unknown-profile error whenever the generic
\* fields extract successfully, and otherwise the error of the first generic
\* field that is missing or invalid.
C1_UnknownProfileRejected ==
    UnknownProfileRequested =>
        /\ calls \cap {"dataset", "solver"} = {}
        /\ pc \notin {"run_prediction", "solve", "assemble", "respond"}
        /\ pc = "done" =>
              /\ http.status = 400
              /\ http.body = "error"
              /\ http.type = "RequestException"
              /\ IF ParseGenericFields(data).exc = NoExc
                 THEN http = UnknownProfileResponse
                 ELSE exc.param \in GenericParams

C1_Witness ==
    /\ UnknownProfileRequested
    /\ pc = "done"
    /\ http = UnknownProfileResponse
    /\ "elevation" \in calls

\* the altitude was omitted and the elevation lookup failed
LookupFailed ==
    /\ data["launch_altitude"] = Absent
    /\ elev.o \in ElevationFailures

\* parse_request on a query that supplies its launch altitude
ParseRequestSupplied(d) ==
    LET g == ParseGenericFields(d)
    IN  IF g.exc # NoExc THEN g ELSE ParseProfileFields(d, g.req)

\* C2: when launch_altitude is absent and the elevation lookup fails in any
\* way, launch_altitude is exactly 0.0, no error is raised by the lookup, and
\* parse_request then returns or fails exactly as it does for the same query
\* with launch_altitude=0.0.
C2_LookupFailureDefaultsToZero ==
    LookupFailed =>
        LET supplied == ParseRequestSupplied(
                            [data EXCEPT !["launch_altitude"] = NumStr(0)])
        IN  /\ req["launch_altitude"] = Float(0)
            /\ pc = "profile" => exc = NoExc
            /\ pc = "run_prediction" =>
                  /\ supplied.exc = NoExc
                  /\ req = supplied.req
            /\ (pc = "raised" /\ "dataset" \notin calls) => exc = supplied.exc

C2_Witness ==
    /\ LookupFailed
    /\ elev.o = "malformed body"
    /\ pc = "run_prediction"
    /\ req["launch_altitude"] = Float(0)

\* C3: in every state after the altitude-resolution step, launch_altitude is
\* present in the request and is a number.
C3_AltitudeNumeric ==
    pc = "profile" => IsNumber(req["launch_altitude"])

\* C4: in every successful response of run_prediction and of
\* parse_request_datasetcheck, request.dataset is the resolved dataset's
\* timestamp with minutes and seconds zero, never the string "latest".
C4_DatasetHourTruncated ==
    Succeeded =>
        /\ req["dataset"].t = "rfc3339"
        /\ req["dataset"].v % 3600 = 0
        /\ req["dataset"].v = (tawhiri_ds \div 3600) * 3600
        /\ req["dataset"] # Str(LATEST_DATASET_KEYWORD)

C4_Witness ==
    /\ endpoint = "predict"
    /\ pc = "done"
    /\ http.status = 200
    /\ data["dataset"] = Absent
    /\ tawhiri_ds = 45015
    /\ req["dataset"] = Rfc3339(43200)

\* C5: every failure of dataset resolution in run_prediction ends in a
\* dataset error with status 404.
C5_DatasetFailureIs404 ==
    (endpoint = "predict" /\ ds \in DatasetFailures /\ pc = "done") =>
        /\ http.status = 404
        /\ http.body = "error"
        /\ http.type = "InvalidDatasetException"

\* C6: a successful response carries launch_estimate exactly when the
\* profile is reverse, and then its latitude, longitude and altitude are
\* those of the last point of the last stage, both as the solver returned it
\* and as the response body lists it.
C6_LaunchEstimateIsLastPoint ==
    (endpoint = "predict" /\ Succeeded) =>
        /\ launch_estimate # <<>> <=> req["profile"].s = PROFILE_REVERSE
        /\ req["profile"].s = PROFILE_REVERSE =>
              LET leg == result[Len(result)]
                  last == leg[Len(leg)]
                  traj == prediction[Len(prediction)].trajectory
                  shown == traj[Len(traj)]
              IN  /\ Len(launch_estimate) = 1
                  /\ launch_estimate[1].latitude = last[2]
                  /\ launch_estimate[1].longitude = last[3]
                  /\ launch_estimate[1].altitude = last[4]
                  /\ launch_estimate[1].latitude = shown.latitude
                  /\ launch_estimate[1].longitude = shown.longitude
                  /\ launch_estimate[1].altitude = shown.altitude

C6_Witness ==
    /\ endpoint = "predict"
    /\ pc = "done"
    /\ http.status = 200
    /\ req["profile"].s = PROFILE_REVERSE
    /\ Len(result) = 2
    /\ Len(result[1]) = 1
    /\ Len(result[2]) = 2
    /\ launch_estimate # <<>>

\* C7: the format of every request parse_request returns is one of json,
\* csv, kml.
C7_FormatInEnum ==
    pc = "run_prediction" => req["format"].s \in {"json", "csv", "kml"}

\* the query selects the standard profile
StandardRequested ==
    /\ endpoint = "predict"
    /\ data["profile"] \in {Absent, Text(PROFILE_STANDARD)}

\* C8: for every standard-profile request parse_request accepts, each input
\* rate is a number above 0 and the stored rate is at least 0.2: 0.2 for an
\* input below 0.2, the input itself otherwise; a rate at or below 0 is
\* rejected as an invalid value.
C8_RatesClipped ==
    StandardRequested =>
        \A k \in {"ascent_rate", "descent_rate"} :
            /\ pc = "run_prediction" =>
                  /\ data[k].t = "numstr" /\ data[k].s # "nan"
                  /\ data[k].v > 0
                  /\ req[k].t = "float" /\ req[k].s # "nan"
                  /\ req[k].v >= 2
                  /\ req[k].v = IF data[k].v < 2 THEN 2 ELSE data[k].v
            /\ (pc = "raised" /\ exc.param = k /\ data[k].t = "numstr"
                  /\ "dataset" \notin calls) =>
                  /\ data[k].s = "nan" \/ data[k].v <= 0
                  /\ exc = Raise("RequestException", "invalid value", k)

C8_Witness ==
    /\ StandardRequested
    /\ pc = "run_prediction"
    /\ data["ascent_rate"] = NumStr(1)
    /\ req["ascent_rate"] = Float(2)
    /\ data["descent_rate"] = NumStr(3)
    /\ req["descent_rate"] = Float(3)

\* the solver returned a result whose stage count is not the label count
StageCountMismatch ==
    /\ "solver" \in calls
    /\ exc.type # "PredictionException"
    /\ Len(result) # 2

\* C9: when the solver returns a number of stages other than two, the client
\* receives the structured InternalError response with status 500 produced
\* by the API error handler.
C9_MismatchIsInternalError ==
    (pc = "done" /\ StageCountMismatch) =>
        /\ http.status = 500
        /\ http.body = "error"
        /\ http.type = "InternalException"

InRunPrediction == pc \in {"run_prediction", "solve", "assemble"}

\* C10 (as claimed): no step of run_prediction changes any field of the
\* request it was handed.
C10_Original == [][InRunPrediction => req' = req]_vars

\* C10 (amended): run_prediction changes no field of the request it was
\* handed except dataset, which it overwrites with the resolved dataset's
\* hour-truncated timestamp when resolution succeeds, and the fields whose
\* name contains "datetime", which it re-encodes as RFC3339 strings when the
\* response is assembled; a step that raises changes nothing.
C10_OnlyEchoFieldsRewritten ==
    [][InRunPrediction =>
          /\ \A k \in ReqKeys \ ({"dataset"} \cup DatetimeKeys) :
                req'[k] = req[k]
          /\ req'["dataset"] # req["dataset"] =>
                /\ pc = "run_prediction" /\ pc' = "solve"
                /\ req'["dataset"].t = "rfc3339"
                /\ req'["dataset"].v % 3600 = 0
          /\ \A k \in DatetimeKeys :
                req'[k] # req[k] =>
                   /\ pc = "assemble" /\ pc' = "respond"
                   /\ req[k].t = "float"
                   /\ req'[k] = Rfc3339(req[k].v)
          /\ pc' = "raised" => req' = req]_vars

C10_Witness ==
    /\ endpoint = "predict"
    /\ pc = "respond"
    /\ req["launch_datetime"] = Rfc3339(1)
    /\ req["stop_datetime"] = Rfc3339(2)
    /\ req["dataset"].t = "rfc3339"
    /\ req["ascent_rate"] = Float(2)
    /\ req["float_altitude"] = Float(100)

====
